---- MODULE Spec2Model ----
(***************************************************************************)
(* State-machine model of tge_scraper.py: the fetch-with-retry loop of     *)
(* scrape_tge_data, the table-to-record extraction, the "Typ instrumentu"   *)
(* filter, the date collaborator get_polish_date and the __main__ block.    *)
(*                                                                         *)
(* Text values are sequences of one-character strings, so that trimming    *)
(* and date formatting are computed and not assumed.  Field names are      *)
(* strings; the Polish diacritics of COLUMN_MAPPING are written in ASCII.  *)
(***************************************************************************)
EXTENDS Integers, Sequences, FiniteSets, TLC

VARIABLES
    pc,           \* position of the program
    date_str,     \* scrape_tge_data's date_str (NoneStr while it is None)
    max_retries,  \* scrape_tge_data's max_retries argument
    attempt,      \* the for loop's index
    session,      \* "none" | "open" | "closed": the requests.Session object
    doc,          \* the document of the last successful response
    rows,         \* the list of row_dict built from the document
    result,       \* what scrape_tge_data returned (None or a DataFrame)
    log,          \* observable events in order: requests, sleeps, outcomes
    out,          \* what the __main__ block did with the result
    cell_in,      \* input of the column-name resolution (its own specification)
    col_out,      \* its output
    tz,           \* inputs of get_polish_date (its own specification)
    date_out,     \* its outcome
    df_in,        \* the df argument of a direct call of save_to_file / display_data
    os_env,       \* the environment save_to_file met (NoEnv until it is called)
    file,         \* the content of the file save_to_file wrote (NoFile if none)
    console       \* what display_data and save_to_file printed

vars == <<pc, date_str, max_retries, attempt, session, doc, rows, result, log,
          out, cell_in, col_out, tz, date_out, df_in, os_env, file, console>>

-----------------------------------------------------------------------------
(* Bounds of the model *)

MaxRetries == 3
MaxRows == 2
MaxIdx == 18

-----------------------------------------------------------------------------
(* Values *)

\* Python's None where a DataFrame is expected
None == [kind |-> "None"]

\* Python's None where a string of characters is expected
NoneStr == <<"None">>

\* pandas' NaN in a column of strings
NaN == <<"NaN">>

\* an attribute of a tag: absent, or present with a value
NoAttr == <<>>

Attr(s) == <<s>>

Whitespace == {" ", "\t", "\n"}

SixtyText == <<"6", "0">>

-----------------------------------------------------------------------------
(* COLUMN_MAPPING and the column-name resolution *)

COLUMN_MAPPING ==
    << "Instrument",
       "Typ instrumentu",
       "Fixing I - Kurs [PLN/MWh]",
       "Fixing I - Wolumen [MW]",
       "Fixing II - Kurs jednolity [PLN/MWh]",
       "Fixing II - Wolumen [MW]",
       "Notowania ciagle - Kurs jednolity [EUR/MWh]",
       "Notowania ciagle - Kurs jednolity [PLN/MWh]",
       "Notowania ciagle - Wolumen [MW]",
       "Notowania ciagle - Wolumen kupna [MW]",
       "Notowania ciagle - Wolumen sprzedazy [MW]",
       "Lacznie - Kurs min. [PLN/MWh]",
       "Lacznie - Kurs max. [PLN/MWh]",
       "Lacznie - Kurs sredniowazony [PLN/MWh]",
       "Lacznie - Wolumen [MWh]",
       "Lacznie - Wolumen kupna [MWh]",
       "Lacznie - Wolumen sprzedazy [MWh]" >>

\* COLUMN_MAPPING.get(idx, default): the dict's keys are 0..16
ColumnMappingGet(idx, default) ==
    IF idx + 1 \in DOMAIN COLUMN_MAPPING THEN COLUMN_MAPPING[idx + 1] ELSE default

\* Python truthiness of cell.get(name): None and "" are falsy
Truthy(a) == a # NoAttr /\ a[1] # ""

\* cell.get('data-title') or cell.get('data-label')
TitleOrLabel(title, label) == IF Truthy(title) THEN title ELSE label

\* data-label looked up before data-title
ColNameSwapped(title, label, idx) ==
    LET c == TitleOrLabel(label, title)
    IN  IF Truthy(c) THEN c[1]
        ELSE ColumnMappingGet(idx, "Kolumna_" \o ToString(idx + 1))

\* lines 120-122: the field name of the cell at position idx
ColName(title, label, idx) ==
    LET c == TitleOrLabel(title, label)
    IN  IF Truthy(c) THEN c[1]
        ELSE ColumnMappingGet(idx, "Kolumna_" \o ToString(idx + 1))

-----------------------------------------------------------------------------
(* Records (row_dict) and the extraction of the table body *)

RECURSIVE LStrip(_)
LStrip(s) ==
    IF s # <<>> /\ Head(s) \in Whitespace THEN LStrip(Tail(s)) ELSE s

RECURSIVE RStrip(_)
RStrip(s) ==
    IF s # <<>> /\ s[Len(s)] \in Whitespace
    THEN RStrip(SubSeq(s, 1, Len(s) - 1))
    ELSE s

\* cell.get_text(strip=True) of a cell holding one text node
GetText(cell) == RStrip(LStrip(cell.text))

DictKeys(d) == [i \in 1..Len(d) |-> d[i].k]

DictHas(d, key) == \E i \in 1..Len(d) : d[i].k = key

DictGet(d, key) == d[CHOOSE i \in 1..Len(d) : d[i].k = key].v

\* d[key] = value on an insertion-ordered dict
DictSet(d, key, value) ==
    IF DictHas(d, key)
    THEN [i \in 1..Len(d) |-> IF d[i].k = key THEN [k |-> key, v |-> value] ELSE d[i]]
    ELSE Append(d, [k |-> key, v |-> value])

\* lines 118-123: the row_dict of the first n cells of a row
RECURSIVE RowDict(_, _)
RowDict(cells, n) ==
    IF n = 0 THEN <<>>
    ELSE DictSet(RowDict(cells, n - 1),
                 ColName(cells[n].title, cells[n].label, n - 1),
                 GetText(cells[n]))

\* a row_dict for every tr, the ones without cells included
BuildRowsKeepEmpty(trs) ==
    [i \in 1..Len(trs) |-> RowDict(trs[i], Len(trs[i]))]

\* lines 115-124: one row_dict per tr that has cells, in document order
RECURSIVE BuildRows(_)
BuildRows(trs) ==
    IF trs = <<>> THEN <<>>
    ELSE LET cells == Head(trs)
         IN  IF cells # <<>>
             THEN <<RowDict(cells, Len(cells))>> \o BuildRows(Tail(trs))
             ELSE BuildRows(Tail(trs))

-----------------------------------------------------------------------------
(* pandas: DataFrame(rows), df.empty, df[df[col] == value] *)

Contains(seq, x) == \E i \in 1..Len(seq) : seq[i] = x

RECURSIVE AddKeys(_, _)
AddKeys(cols, keys) ==
    IF keys = <<>> THEN cols
    ELSE AddKeys(IF Contains(cols, Head(keys)) THEN cols ELSE Append(cols, Head(keys)),
                 Tail(keys))

\* the columns of DataFrame(rows): the keys of the dicts, in order of first appearance
RECURSIVE UnionColumns(_)
UnionColumns(rs) ==
    IF rs = <<>> THEN <<>>
    ELSE AddKeys(UnionColumns(SubSeq(rs, 1, Len(rs) - 1)), DictKeys(rs[Len(rs)]))

\* line 130: pd.DataFrame(rows); a key a dict lacks gives NaN
DataFrame(rs) ==
    LET cols == UnionColumns(rs)
    IN  [kind    |-> "DataFrame",
         columns |-> cols,
         index   |-> [i \in 1..Len(rs) |-> i - 1],
         data    |-> [i \in 1..Len(rs) |->
                        [j \in 1..Len(cols) |->
                            IF DictHas(rs[i], cols[j]) THEN DictGet(rs[i], cols[j])
                            ELSE NaN]]]

\* df.empty: no rows or no columns
Empty(df) == Len(df.index) = 0 \/ Len(df.columns) = 0

ColumnPos(df, col) == CHOOSE j \in 1..Len(df.columns) : df.columns[j] = col

RECURSIVE KeptPositions(_, _, _)
KeptPositions(mask, i, acc) ==
    IF i > Len(mask) THEN acc
    ELSE KeptPositions(mask, i + 1, IF mask[i] THEN Append(acc, i) ELSE acc)

\* df[mask]: the rows whose mask is True, index labels kept
Take(df, mask) ==
    LET keep == KeptPositions(mask, 1, <<>>)
    IN  [kind    |-> "DataFrame",
         columns |-> df.columns,
         index   |-> [n \in 1..Len(keep) |-> df.index[keep[n]]],
         data    |-> [n \in 1..Len(keep) |-> df.data[keep[n]]]]

\* the comparison inverted
FilterNotEquals(df, col, value) ==
    Take(df, [i \in 1..Len(df.index) |-> df.data[i][ColumnPos(df, col)] # value])

\* rows without a value in the column kept
FilterKeepsNaN(df, col, value) ==
    Take(df, [i \in 1..Len(df.index) |->
                df.data[i][ColumnPos(df, col)] \in {value, NaN}])

\* line 144: df[df[col] == value]
Filter(df, col, value) ==
    Take(df, [i \in 1..Len(df.index) |-> df.data[i][ColumnPos(df, col)] = value])

\* line 136: 'Typ instrumentu' in df.columns
HasFilterColumn(df) == Contains(df.columns, "Typ instrumentu")

-----------------------------------------------------------------------------
(* Documents the server may answer with *)

Cell(title, label, text) == [title |-> title, label |-> label, text |-> text]

\* table rows (tr) as sequences of cells (td)
RowSet ==
    { <<>>,
      << Cell(NoAttr, NoAttr, <<"A">>), Cell(NoAttr, NoAttr, <<" ", "6", "0", "\n">>) >>,
      << Cell(NoAttr, NoAttr, <<"B">>), Cell(NoAttr, NoAttr, <<"7", "0">>) >>,
      << Cell(NoAttr, NoAttr, <<"C">>) >>,
      << Cell(Attr("Typ instrumentu"), Attr("Instrument"), SixtyText),
         Cell(Attr(""), Attr("Typ instrumentu"), <<"6", "1">>) >>,
      << Cell(NoAttr, Attr("Kurs"), SixtyText) >> }

Bodies == UNION { [1..n -> RowSet] : n \in 0..MaxRows }

NoDoc == [fetched |-> FALSE, table |-> FALSE, tbody |-> FALSE, trs |-> <<>>]

Documents ==
    { [fetched |-> TRUE, table |-> FALSE, tbody |-> FALSE, trs |-> <<>>],
      [fetched |-> TRUE, table |-> TRUE, tbody |-> FALSE, trs |-> <<>>] }
    \cup { [fetched |-> TRUE, table |-> TRUE, tbody |-> TRUE, trs |-> b] : b \in Bodies }

\* lines 112-124: rows stays [] when the table has no tbody
ExtractRows(d) == IF d.tbody THEN BuildRows(d.trs) ELSE <<>>

-----------------------------------------------------------------------------
(* get_polish_date *)

IsLeap(y) == (y % 4 = 0 /\ y % 100 # 0) \/ y % 400 = 0

DaysInMonth(y, mo) ==
    IF mo = 2 THEN (IF IsLeap(y) THEN 29 ELSE 28)
    ELSE IF mo \in {4, 6, 9, 11} THEN 30 ELSE 31

\* datetime.weekday(): Monday is 0, Sunday is 6
Weekday(y, mo, d) ==
    LET t  == <<0, 3, 2, 5, 0, 3, 5, 1, 4, 6, 2, 4>>
        yy == IF mo < 3 THEN y - 1 ELSE y
    IN  ((yy + (yy \div 4) - (yy \div 100) + (yy \div 400) + t[mo] + d) + 6) % 7

\* calendar.monthcalendar(year, month): weeks of seven day numbers, Monday
\* first, 0 for the days outside the month
MonthCalendar(y, mo) ==
    LET first  == Weekday(y, mo, 1)
        ndays  == DaysInMonth(y, mo)
        nweeks == (first + ndays + 6) \div 7
    IN  [w \in 1..nweeks |->
            [p \in 1..7 |->
                LET day == (w - 1) * 7 + p - first
                IN  IF day \in 1..ndays THEN day ELSE 0]]

SetMax(S) == CHOOSE x \in S : \A z \in S : z <= x

\* lines 26-27: max(week[-1] for week in calendar.monthcalendar(year, month))
LastSundayOf(y, mo) ==
    LET cal == MonthCalendar(y, mo)
    IN  SetMax({ cal[w][7] : w \in DOMAIN cal })

\* order of two instants of one year, to the hour
Stamp(mo, d, h) == (mo * 32 + d) * 24 + h

\* datetime + timedelta(hours=k), 0 <= k < 24
AddHours(t, k) ==
    LET h == t.h + k
    IN  IF h < 24 THEN [t EXCEPT !.h = h]
        ELSE IF t.d < DaysInMonth(t.y, t.mo) THEN [t EXCEPT !.h = h - 24, !.d = t.d + 1]
        ELSE IF t.mo < 12 THEN [t EXCEPT !.h = h - 24, !.d = 1, !.mo = t.mo + 1]
        ELSE [y |-> t.y + 1, mo |-> 1, d |-> 1, h |-> h - 24]

\* lines 22-37: the manual DST-window computation
ManualPolishTime(utc_now) ==
    LET year      == utc_now.y
        dst_start == Stamp(3, LastSundayOf(year, 3), 1)
        dst_end   == Stamp(10, LastSundayOf(year, 10), 1)
        now       == Stamp(utc_now.mo, utc_now.d, utc_now.h)
    IN  AddHours(utc_now, IF dst_start <= now /\ now < dst_end THEN 2 ELSE 1)

\* datetime.now(tz) for Europe/Warsaw, from the zone's rule: UTC+2 from 01:00 UTC
\* of the last Sunday of March to 01:00 UTC of the last Sunday of October
ZonePolishTime(utc_now) ==
    LET sun(mo) == CHOOSE d \in 25..31 : Weekday(utc_now.y, mo, d) = 6
        now     == Stamp(utc_now.mo, utc_now.d, utc_now.h)
        summer  == Stamp(3, sun(3), 1) <= now /\ now < Stamp(10, sun(10), 1)
    IN  AddHours(utc_now, IF summer THEN 2 ELSE 1)

Digit(n) == <<"0", "1", "2", "3", "4", "5", "6", "7", "8", "9">>[n + 1]

Pad2(n) == <<Digit((n \div 10) % 10), Digit(n % 10)>>

\* line 39: strftime("%d-%m-%Y")
Strftime(t) ==
    Pad2(t.d) \o <<"-">> \o Pad2(t.mo) \o <<"-">>
        \o Pad2(t.y \div 100) \o Pad2(t.y % 100)

\* how a stage of the fallback chain can end
StageOutcomes == {"ok", "ImportError", "Exception"}

Returned(v) == [raised |-> FALSE, value |-> v]

Raised == [raised |-> TRUE, value |-> NoneStr]

\* lines 13-39.  zoneinfo: how the import and ZoneInfo(...) end; pytz: how the
\* import and pytz.timezone(...) end.  The inner handler catches ImportError only.
GetPolishDate(zoneinfo, pytz, utc_now) ==
    IF zoneinfo = "ok" THEN Returned(Strftime(ZonePolishTime(utc_now)))
    ELSE IF pytz = "ok" THEN Returned(Strftime(ZonePolishTime(utc_now)))
    ELSE IF pytz = "ImportError" THEN Returned(Strftime(ManualPolishTime(utc_now)))
    ELSE Raised

-----------------------------------------------------------------------------
(* save_to_file and display_data *)

\* the characters of the column names the model uses
Chars(name) ==
    CASE name = "Instrument" -> <<"I", "n", "s", "t", "r", "u", "m", "e", "n", "t">>
      [] name = "Typ instrumentu" ->
            <<"T", "y", "p", " ", "i", "n", "s", "t", "r", "u", "m", "e", "n", "t", "u">>
      [] name = "Kurs" -> <<"K", "u", "r", "s">>
      [] name = "Kurs, PLN" -> <<"K", "u", "r", "s", ",", " ", "P", "L", "N">>

\* encoding='utf-8-sig': the signature at the start of the file
Bom == "BOM"

NoFile == <<"NoFile">>

NoEnv == [linesep |-> <<>>, quotes_newlines |-> FALSE, writable |-> FALSE]

\* what save_to_file depends on outside the program: os.linesep; whether the
\* interpreter's csv writer quotes "\r" and "\n" whatever the line terminator
\* (the newer ones) or only the characters of the line terminator; whether the
\* file can be written
OsEnvs == [linesep : {<<"\n">>, <<"\r", "\n">>},
           quotes_newlines : BOOLEAN,
           writable : BOOLEAN]

\* na_rep='': a missing value is written as the empty string
NaRep(v) == IF v = NaN THEN <<>> ELSE v

\* the characters that make csv.writer (QUOTE_MINIMAL) quote a field
SpecialChars(env) ==
    {",", "\""} \cup { env.linesep[i] : i \in 1..Len(env.linesep) }
        \cup (IF env.quotes_newlines THEN {"\r", "\n"} ELSE {})

NeedsQuote(f, env) == \E i \in 1..Len(f) : f[i] \in SpecialChars(env)

\* doublequote=True
RECURSIVE DoubleQuotes(_)
DoubleQuotes(f) ==
    IF f = <<>> THEN <<>>
    ELSE (IF Head(f) = "\"" THEN <<"\"", "\"">> ELSE <<Head(f)>>) \o DoubleQuotes(Tail(f))

\* no field ever quoted
CsvFieldUnquoted(f, env) == f

\* quoted without doubling the quotes inside
CsvFieldNoDoubling(f, env) ==
    IF NeedsQuote(f, env) THEN <<"\"">> \o f \o <<"\"">> ELSE f

\* one field as csv.writer writes it
CsvField(f, env) ==
    IF NeedsQuote(f, env) THEN <<"\"">> \o DoubleQuotes(f) \o <<"\"">> ELSE f

RECURSIVE JoinFields(_, _)
JoinFields(fields, env) ==
    IF Len(fields) = 1 THEN CsvField(fields[1], env)
    ELSE CsvField(Head(fields), env) \o <<",">> \o JoinFields(Tail(fields), env)

\* writer.writerow: a row of one empty field is written as "" so that the
\* line is not blank
CsvRow(fields, env) ==
    (IF Len(fields) = 1 /\ fields[1] = <<>> THEN <<"\"", "\"">>
     ELSE JoinFields(fields, env)) \o env.linesep

RECURSIVE CsvRows(_, _)
CsvRows(data, env) ==
    IF data = <<>> THEN <<>>
    ELSE CsvRow([j \in 1..Len(Head(data)) |-> NaRep(Head(data)[j])], env)
         \o CsvRows(Tail(data), env)

\* line 180: df.to_csv(filepath, index=False, encoding='utf-8-sig')
ToCsv(df, env) ==
    <<Bom>> \o CsvRow([j \in 1..Len(df.columns) |-> Chars(df.columns[j])], env)
            \o CsvRows(df.data, env)

ActsOnNotNone(df) == df # None

\* lines 170 and 193: display_data and save_to_file do nothing but print a
\* diagnostic on None or an empty DataFrame
ActsOn(df) == ~(df = None \/ Empty(df))

\* lines 170-184: the file after save_to_file(df), and what it printed
SaveToFileFile(df, env, before) ==
    IF ~ActsOn(df) THEN before
    ELSE IF env.writable THEN ToCsv(df, env)
    ELSE before

SaveToFilePrints(df, env) ==
    IF ~ActsOn(df) THEN <<"Brak danych do zapisania.">>
    ELSE IF env.writable THEN <<"Dane zapisane do pliku">>
    ELSE <<"Blad podczas zapisywania pliku">>

\* lines 193-206: what display_data(df) prints
DisplayDataPrints(df) ==
    IF ~ActsOn(df) THEN <<"Brak danych do wyswietlenia.">>
    ELSE <<"WYNIKI - Typ instrumentu = 60", "df.to_string(index=False)">>

-----------------------------------------------------------------------------
(* The program: __main__ calling scrape_tge_data *)

Event(e, n) == [e |-> e, n |-> n]

\* what the __main__ block has done
NothingYet == [displayed |-> FALSE, saved |-> FALSE, failure |-> FALSE]

GivenDate == <<"0", "3", "-", "1", "1", "-", "2", "0", "2", "6">>

\* the instants the program is started at in the specification of the whole program
MainClocks == { [y |-> 2026, mo |-> 11, d |-> 3, h |-> 23],
                [y |-> 2026, mo |-> 7, d |-> 31, h |-> 22] }

IdleCell == [title |-> NoAttr, label |-> NoAttr, idx |-> 0]

IdleTz == [zoneinfo |-> "ok", pytz |-> "ok",
           utc_now |-> [y |-> 2026, mo |-> 11, d |-> 3, h |-> 23]]

Init ==
    /\ pc = "call"
    /\ date_str \in {NoneStr, GivenDate}
    /\ max_retries \in (0 - 1)..MaxRetries
    /\ attempt = 0
    /\ session = "none"
    /\ doc = NoDoc
    /\ rows = <<>>
    /\ result = None
    /\ log = <<>>
    /\ out = NothingYet
    /\ cell_in = IdleCell
    /\ col_out = ""
    /\ tz = IdleTz
    /\ date_out = Returned(NoneStr)
    /\ df_in = None
    /\ os_env = NoEnv
    /\ file = NoFile
    /\ console = <<>>

\* the arguments of the operations the specifications below call directly
inputs == <<cell_in, col_out, tz, date_out, df_in>>

pure == <<cell_in, col_out, tz, date_out, df_in, os_env, file, console>>

\* lines 69-71: date_str defaults to get_polish_date(), called outside the try
ResolveDate ==
    /\ pc = "call"
    /\ IF date_str # NoneStr
       THEN /\ pc' = "session"
            /\ UNCHANGED date_str
       ELSE \E zoneinfo \in StageOutcomes, pytz \in StageOutcomes, now \in MainClocks :
                LET r == GetPolishDate(zoneinfo, pytz, now)
                IN  IF r.raised
                    THEN /\ pc' = "crashed"
                         /\ UNCHANGED date_str
                    ELSE /\ pc' = "session"
                         /\ date_str' = r.value
    /\ UNCHANGED <<max_retries, attempt, session, doc, rows, result, log, out, pure>>

\* lines 90-91: the session is created; nothing in the file closes it
OpenSession ==
    /\ pc = "session"
    /\ session' = "open"
    /\ attempt' = 0
    /\ pc' = "for"
    /\ UNCHANGED <<date_str, max_retries, doc, rows, result, log, out, pure>>

\* the backoff without its guard attempt > 0
SleepsBeforeFirst(a) == <<Event("sleep", 2 ^ a)>>

\* lines 95-98: the backoff before attempt a
Sleeps(a) == IF a > 0 THEN <<Event("sleep", 2 ^ a)>> ELSE <<>>

\* the loop running one attempt too many
EnterAttemptOffByOne ==
    /\ pc = "for"
    /\ attempt <= max_retries
    /\ log' = log \o Sleeps(attempt)
    /\ pc' = "get"
    /\ UNCHANGED <<date_str, max_retries, attempt, session, doc, rows, result, out, pure>>

\* line 93 and lines 95-98: the loop enters attempt `attempt`, sleeping first
\* when it is a retry
EnterAttempt ==
    /\ pc = "for"
    /\ attempt < max_retries
    /\ log' = log \o Sleeps(attempt)
    /\ pc' = "get"
    /\ UNCHANGED <<date_str, max_retries, attempt, session, doc, rows, result, out, pure>>

\* line 160: range(max_retries) is exhausted
LoopExhausted ==
    /\ pc = "for"
    /\ ~(attempt < max_retries)
    /\ result' = None
    /\ pc' = "returned"
    /\ UNCHANGED <<date_str, max_retries, attempt, session, doc, rows, log, out, pure>>

\* return None from inside the loop
ReturnNone(events) ==
    /\ result' = None
    /\ log' = log \o events
    /\ pc' = "returned"
    /\ UNCHANGED attempt

\* the loop goes on with the next value of range(max_retries)
NextAttempt(events) ==
    /\ attempt' = attempt + 1
    /\ log' = log \o events
    /\ pc' = "for"
    /\ UNCHANGED result

\* every attempt taken for the last one
LastAttemptAlways(a, m) == TRUE

\* line 154: attempt == max_retries - 1
LastAttempt(a, m) == a = m - 1

\* a missing table never retried
AttemptsRemainNever(a, m) == FALSE

\* line 108: attempt < max_retries - 1
AttemptsRemain(a, m) == a < m - 1

\* lines 100-101 and 152-155: session.get or raise_for_status raises a
\* RequestException (connection error, timeout, non-2xx status)
GetRequestException ==
    /\ pc = "get"
    /\ LET events == <<Event("get", attempt), Event("RequestException", attempt)>>
       IN  IF LastAttempt(attempt, max_retries)
           THEN ReturnNone(events)
           ELSE NextAttempt(events)
    /\ UNCHANGED <<date_str, max_retries, session, doc, rows, out, pure>>

\* lines 100-103: a 2xx response, parsed into a document
GetOk ==
    /\ pc = "get"
    /\ \E d \in Documents : doc' = d
    /\ log' = log \o <<Event("get", attempt), Event("ok", attempt)>>
    /\ pc' = "parse"
    /\ rows' = <<>>
    /\ UNCHANGED <<date_str, max_retries, attempt, session, result, out, pure>>

\* an exception in the processing handled like a RequestException
ParseExceptionRetried ==
    /\ pc = "parse"
    /\ IF LastAttempt(attempt, max_retries)
       THEN ReturnNone(<<Event("Exception", attempt)>>)
       ELSE NextAttempt(<<Event("Exception", attempt)>>)
    /\ UNCHANGED <<date_str, max_retries, session, doc, rows, out, pure>>

\* lines 156-158: an exception that is no RequestException while the document
\* is processed
ParseException ==
    /\ pc = "parse"
    /\ ReturnNone(<<Event("Exception", attempt)>>)
    /\ UNCHANGED <<date_str, max_retries, session, doc, rows, out, pure>>

\* lines 105-110: no table with id 'rdn'
TableMissing ==
    /\ pc = "parse"
    /\ ~doc.table
    /\ IF AttemptsRemain(attempt, max_retries)
       THEN NextAttempt(<<Event("table_missing", attempt)>>)
       ELSE ReturnNone(<<Event("table_missing", attempt)>>)
    /\ UNCHANGED <<date_str, max_retries, session, doc, rows, out, pure>>

\* an empty table handled like a missing one: retried while attempts remain
NoDataRetried ==
    /\ pc = "parse"
    /\ doc.table
    /\ ExtractRows(doc) = <<>>
    /\ rows' = <<>>
    /\ IF AttemptsRemain(attempt, max_retries)
       THEN NextAttempt(<<Event("no_data", attempt)>>)
       ELSE ReturnNone(<<Event("no_data", attempt)>>)
    /\ UNCHANGED <<date_str, max_retries, session, doc, out, pure>>

\* an empty table returned as an empty DataFrame
NoDataReturnsEmpty ==
    /\ pc = "parse"
    /\ doc.table
    /\ ExtractRows(doc) = <<>>
    /\ rows' = <<>>
    /\ result' = DataFrame(<<>>)
    /\ log' = Append(log, Event("no_data", attempt))
    /\ pc' = "returned"
    /\ UNCHANGED <<date_str, max_retries, attempt, session, doc, out, pure>>

\* lines 112-128: no row_dict was built
NoData ==
    /\ pc = "parse"
    /\ doc.table
    /\ ExtractRows(doc) = <<>>
    /\ rows' = <<>>
    /\ ReturnNone(<<Event("no_data", attempt)>>)
    /\ UNCHANGED <<date_str, max_retries, session, doc, out, pure>>

\* a missing filter column treated as a failure
ReturnUnfilteredAsFailure ==
    /\ pc = "parse"
    /\ doc.table
    /\ LET rs == ExtractRows(doc)
           df == DataFrame(rs)
       IN  /\ rs # <<>>
           /\ ~HasFilterColumn(df)
           /\ rows' = rs
           /\ result' = None
    /\ log' = Append(log, Event("unfiltered", attempt))
    /\ pc' = "returned"
    /\ UNCHANGED <<date_str, max_retries, attempt, session, doc, out, pure>>

\* lines 112-141: the DataFrame has no column 'Typ instrumentu'
ReturnUnfiltered ==
    /\ pc = "parse"
    /\ doc.table
    /\ LET rs == ExtractRows(doc)
           df == DataFrame(rs)
       IN  /\ rs # <<>>
           /\ ~HasFilterColumn(df)
           /\ rows' = rs
           /\ result' = df
    /\ log' = Append(log, Event("unfiltered", attempt))
    /\ pc' = "returned"
    /\ UNCHANGED <<date_str, max_retries, attempt, session, doc, out, pure>>

\* lines 112-146: the rows whose 'Typ instrumentu' is '60'
ReturnFiltered ==
    /\ pc = "parse"
    /\ doc.table
    /\ LET rs == ExtractRows(doc)
           df == DataFrame(rs)
       IN  /\ rs # <<>>
           /\ HasFilterColumn(df)
           /\ rows' = rs
           /\ result' = Filter(df, "Typ instrumentu", SixtyText)
    /\ log' = Append(log, Event("filtered", attempt))
    /\ pc' = "returned"
    /\ UNCHANGED <<date_str, max_retries, attempt, session, doc, out, pure>>

\* line 214: data is not None and not data.empty
Usable(data) == data # None /\ ~Empty(data)

\* lines 214-219: display_data(data) and save_to_file(data, filename)
MainDisplayAndSave ==
    /\ pc = "returned"
    /\ Usable(result)
    /\ out' = [out EXCEPT !.displayed = ActsOn(result), !.saved = ActsOn(result)]
    /\ \E env \in OsEnvs :
          /\ os_env' = env
          /\ file' = SaveToFileFile(result, env, file)
          /\ console' = console \o DisplayDataPrints(result) \o SaveToFilePrints(result, env)
    /\ pc' = "exit"
    /\ UNCHANGED <<date_str, max_retries, attempt, session, doc, rows, result, log, inputs>>

\* lines 220-221: the failure message
MainFailure ==
    /\ pc = "returned"
    /\ ~Usable(result)
    /\ out' = [out EXCEPT !.failure = TRUE]
    /\ console' = console \o <<"Nie udalo sie pobrac danych.">>
    /\ pc' = "exit"
    /\ UNCHANGED <<date_str, max_retries, attempt, session, doc, rows, result, log,
                   inputs, os_env, file>>

Next ==
    \/ ResolveDate
    \/ OpenSession
    \/ EnterAttempt
    \/ LoopExhausted
    \/ GetRequestException
    \/ GetOk
    \/ ParseException
    \/ TableMissing
    \/ NoData
    \/ ReturnUnfiltered
    \/ ReturnFiltered
    \/ MainDisplayAndSave
    \/ MainFailure

Spec == Init /\ [][Next]_vars

\* the program is sequential and nothing suspends it but the sleeps, which end:
\* a step that can be taken is taken
SpecLive == Spec /\ WF_vars(Next)

-----------------------------------------------------------------------------
(* save_to_file and display_data called directly, with every DataFrame of  *)
(* the records below, filtered or not, and with None; together with the    *)
(* program itself                                                          *)

Field(k, v) == [k |-> k, v |-> v]

\* records as scrape_tge_data builds them: texts with a comma, a quote, a line
\* feed or a carriage return inside, an empty text, an omitted field
SaveRecords ==
    { << Field("Instrument", <<"A">>), Field("Typ instrumentu", SixtyText) >>,
      << Field("Instrument", <<"a", ",", "b">>), Field("Typ instrumentu", <<>>) >>,
      << Field("Instrument", <<"C">>) >>,
      << Field("Kurs, PLN", <<"x", "\"", "y">>) >>,
      << Field("Instrument", <<"p", "\n", "q">>) >>,
      << Field("Instrument", <<"p", "\r", "q">>) >>,
      << Field("Typ instrumentu", <<>>) >> }

SaveRecordLists == UNION { [1..n -> SaveRecords] : n \in 1..MaxRows }

\* what scrape_tge_data can return: None, the whole DataFrame, the filtered one
SaveInputs ==
    {None}
    \cup { DataFrame(rs) : rs \in SaveRecordLists }
    \cup { Filter(DataFrame(rs), "Typ instrumentu", SixtyText) :
             rs \in { r \in SaveRecordLists : HasFilterColumn(DataFrame(r)) } }

InitCollab ==
    /\ pc = "collab"
    /\ df_in \in SaveInputs
    /\ os_env = NoEnv
    /\ file = NoFile
    /\ console = <<>>
    /\ date_str = GivenDate
    /\ max_retries = 0
    /\ attempt = 0
    /\ session = "none"
    /\ doc = NoDoc
    /\ rows = <<>>
    /\ result = None
    /\ log = <<>>
    /\ out = NothingYet
    /\ cell_in = IdleCell
    /\ col_out = ""
    /\ tz = IdleTz
    /\ date_out = Returned(NoneStr)

\* lines 162-184: save_to_file(df_in)
SaveToFile ==
    /\ pc = "collab"
    /\ \E env \in OsEnvs :
          /\ os_env' = env
          /\ file' = SaveToFileFile(df_in, env, file)
          /\ console' = console \o SaveToFilePrints(df_in, env)
    /\ pc' = "saved"
    /\ UNCHANGED <<date_str, max_retries, attempt, session, doc, rows, result, log,
                   out, inputs>>

\* lines 186-206: display_data(df_in)
DisplayData ==
    /\ pc = "collab"
    /\ console' = console \o DisplayDataPrints(df_in)
    /\ pc' = "shown"
    /\ UNCHANGED <<date_str, max_retries, attempt, session, doc, rows, result, log,
                   out, inputs, os_env, file>>

NextCollab ==
    \/ Next
    \/ SaveToFile
    \/ DisplayData

SpecCollab == (Init \/ InitCollab) /\ [][NextCollab]_vars

-----------------------------------------------------------------------------
(* The column-name resolution on its own: every combination of the two     *)
(* attributes and of the position                                          *)

AttrValues == {NoAttr, Attr(""), Attr("Instrument"), Attr("Cena")}

InitColumn ==
    /\ pc = "column"
    /\ cell_in \in [title : AttrValues, label : AttrValues, idx : 0..MaxIdx]
    /\ col_out = ""
    /\ date_str = GivenDate
    /\ max_retries = 0
    /\ attempt = 0
    /\ session = "none"
    /\ doc = NoDoc
    /\ rows = <<>>
    /\ result = None
    /\ log = <<>>
    /\ out = NothingYet
    /\ tz = IdleTz
    /\ date_out = Returned(NoneStr)
    /\ df_in = None
    /\ os_env = NoEnv
    /\ file = NoFile
    /\ console = <<>>

\* lines 119-122 for one cell
ResolveColumn ==
    /\ pc = "column"
    /\ col_out' = ColName(cell_in.title, cell_in.label, cell_in.idx)
    /\ pc' = "column_done"
    /\ UNCHANGED <<date_str, max_retries, attempt, session, doc, rows, result, log,
                   out, cell_in, tz, date_out, df_in, os_env, file, console>>

NextColumn == ResolveColumn

SpecColumn == InitColumn /\ [][NextColumn]_vars

-----------------------------------------------------------------------------
(* get_polish_date on its own: every instant of three years to the hour    *)
(* classes below, and every way the two library stages can end             *)

Years == {2024, 2026, 2027}

Hours == {0, 1, 12, 22, 23}

Clocks ==
    { t \in [y : Years, mo : 1..12, d : 1..31, h : Hours] : t.d <= DaysInMonth(t.y, t.mo) }

InitDate ==
    /\ pc = "date"
    /\ tz \in [zoneinfo : StageOutcomes, pytz : StageOutcomes, utc_now : Clocks]
    /\ date_out = Returned(NoneStr)
    /\ date_str = NoneStr
    /\ max_retries = 0
    /\ attempt = 0
    /\ session = "none"
    /\ doc = NoDoc
    /\ rows = <<>>
    /\ result = None
    /\ log = <<>>
    /\ out = NothingYet
    /\ cell_in = IdleCell
    /\ col_out = ""
    /\ df_in = None
    /\ os_env = NoEnv
    /\ file = NoFile
    /\ console = <<>>

\* lines 8-39: one call of get_polish_date()
CallGetPolishDate ==
    /\ pc = "date"
    /\ date_out' = GetPolishDate(tz.zoneinfo, tz.pytz, tz.utc_now)
    /\ pc' = "date_done"
    /\ UNCHANGED <<date_str, max_retries, attempt, session, doc, rows, result, log,
                   out, cell_in, col_out, tz, df_in, os_env, file, console>>

NextDate == CallGetPolishDate

SpecDate == InitDate /\ [][NextDate]_vars

-----------------------------------------------------------------------------
(* Reading the log *)

Done == pc \in {"returned", "exit"}

OutcomeKinds == {"RequestException", "table_missing", "no_data", "Exception",
                 "unfiltered", "filtered"}

SuccessKinds == {"unfiltered", "filtered"}

IsOutcome(ev) == ev.e \in OutcomeKinds

IsGet(ev) == ev.e = "get"

IsSleep(ev) == ev.e = "sleep"

Outcomes == SelectSeq(log, IsOutcome)

Gets == SelectSeq(log, IsGet)

SleepEvents == SelectSeq(log, IsSleep)

LastOutcome == Outcomes[Len(Outcomes)]

\* the first k attempts ended with a RequestException and attempt k + 1 returned rows
FailsThenSucceeds(k) ==
    /\ Len(Outcomes) = k + 1
    /\ \A i \in 1..k : Outcomes[i].e = "RequestException"
    /\ Outcomes[k + 1].e \in SuccessKinds

\* the events of k failed attempts: request, failure, and the wait before each retry
RECURSIVE FailedAttempts(_)
FailedAttempts(k) ==
    IF k = 0 THEN <<>>
    ELSE FailedAttempts(k - 1)
         \o (IF k = 1 THEN <<>> ELSE <<Event("sleep", 2 ^ (k - 1))>>)
         \o <<Event("get", k - 1), Event("RequestException", k - 1)>>

\* C1: when the first K attempts fail at transport level (K < max_retries) and
\* attempt K+1 succeeds, exactly K+1 requests are issued, the sleeps are exactly
\* 2, 4, ..., 2^K seconds, one before each retry and none before the first
\* attempt, and the DataFrame of the successful attempt is returned.
C1_RetryThenSuccess ==
    \A k \in 0..MaxRetries :
        (Done /\ max_retries >= 1 /\ k < max_retries /\ FailsThenSucceeds(k)) =>
            /\ Len(Gets) = k + 1
            /\ SleepEvents = [i \in 1..k |-> Event("sleep", 2 ^ i)]
            /\ log = FailedAttempts(k)
                     \o (IF k = 0 THEN <<>> ELSE <<Event("sleep", 2 ^ k)>>)
                     \o <<Event("get", k), Event("ok", k), LastOutcome>>
            /\ result # None
            /\ result.kind = "DataFrame"
            /\ result.columns = UnionColumns(ExtractRows(doc))

C1_Witness ==
    /\ pc = "returned"
    /\ max_retries = 3
    /\ FailsThenSucceeds(2)
    /\ Len(result.index) > 0

\* C2: when every attempt fails at transport level (max_retries >= 1), exactly
\* max_retries requests are issued, None is returned right after the last
\* failure with no sleep after it, and the program has not crashed.
C2_AllAttemptsFail ==
    (/\ pc \in {"returned", "exit", "crashed"}
     /\ max_retries >= 1
     /\ Outcomes # <<>>
     /\ \A i \in 1..Len(Outcomes) : Outcomes[i].e = "RequestException") =>
        /\ pc # "crashed"
        /\ Len(Gets) = max_retries
        /\ Len(Outcomes) = max_retries
        /\ Len(SleepEvents) = max_retries - 1
        /\ log[Len(log)] = Event("RequestException", max_retries - 1)
        /\ log[1] = Event("get", 0)
        /\ result = None

C2_Witness ==
    /\ pc = "returned"
    /\ max_retries = 3
    /\ Len(Outcomes) = 3
    /\ \A i \in 1..3 : Outcomes[i].e = "RequestException"

\* C3 as stated: once a request of the invocation has succeeded, no further
\* request is issued, whatever the document turns out to hold.
C3_NoRequestAfterResponse ==
    \A i \in 1..Len(log) : \A j \in 1..Len(log) :
        (i < j /\ log[i].e = "ok") => log[j].e # "get"

\* the outcome of an attempt after which the loop goes on
Retried(ev) ==
    \/ ev.e = "RequestException" /\ ev.n < max_retries - 1
    \/ ev.e = "table_missing" /\ ev.n < max_retries - 1

\* C3 (amended): a request that follows a successful response follows a
\* document without the table, on an attempt that was not the last one; every
\* other outcome of a fetched document (no data, an exception in the
\* processing, rows found, the table missing on the last attempt) is the last
\* event of the invocation, and the failures among them return None.
C3_OnlyTableMissingRetried ==
    /\ \A i \in 1..Len(log) :
          (IsOutcome(log[i]) /\ ~Retried(log[i])) =>
              /\ i = Len(log)
              /\ Done
              /\ (log[i].e \notin SuccessKinds => result = None)
    /\ \A i \in 1..Len(log) :
          (IsOutcome(log[i]) /\ Retried(log[i])) =>
              /\ pc # "returned" \/ i < Len(log)
              /\ i + 1 <= Len(log) =>
                    /\ log[i + 1] = Event("sleep", 2 ^ (log[i].n + 1))
    /\ \A i \in 1..Len(log) :
          (log[i].e = "ok" /\ i < Len(log)) =>
              /\ IsOutcome(log[i + 1])
              /\ log[i + 1].e # "RequestException"

C3_Witness ==
    /\ Done
    /\ Len(Outcomes) = 2
    /\ Outcomes[1].e = "table_missing"
    /\ Outcomes[2].e = "no_data"
    /\ max_retries = 3

\* C4 as stated: when scrape_tge_data has returned, the session it created
\* has been closed.
C4_SessionReleased ==
    Done => session = "closed"


-----------------------------------------------------------------------------
(* Reading the records and the returned DataFrame *)

FilterField == "Typ instrumentu"

\* the invocation ended on a document whose table was found: rows holds the
\* records built from it
Extracted == Done /\ Outcomes # <<>> /\ LastOutcome.e \in {"no_data", "unfiltered", "filtered"}

HasField(rec) == \E i \in 1..Len(rec) : rec[i].k = FilterField

IsSixty(rec) == \E i \in 1..Len(rec) : rec[i].k = FilterField /\ rec[i].v = SixtyText

\* the positions (from 1) of the records whose "Typ instrumentu" is "60"
SixtyRows == { i \in 1..Len(rows) : IsSixty(rows[i]) }

\* the number of records returned; None carries no record
ReturnedCount == IF result = None THEN 0 ELSE Len(result.index)

\* row n of the returned DataFrame holds the fields of record i and nothing else
RowIsRecord(n, i) ==
    /\ \A j \in 1..Len(rows[i]) :
          \E c \in 1..Len(result.columns) :
              /\ result.columns[c] = rows[i][j].k
              /\ result.data[n][c] = rows[i][j].v
    /\ \A c \in 1..Len(result.columns) :
          \/ \E j \in 1..Len(rows[i]) : rows[i][j].k = result.columns[c]
          \/ result.data[n][c] = NaN

\* the returned rows are the records of the set S, each once, in source order
ReturnsExactly(S) ==
    /\ ReturnedCount = Cardinality(S)
    /\ result # None =>
          /\ { result.index[n] + 1 : n \in 1..Len(result.index) } = S
          /\ \A n \in 1..Len(result.index) : \A o \in 1..Len(result.index) :
                n < o => result.index[n] < result.index[o]
          /\ \A n \in 1..Len(result.index) : RowIsRecord(n, result.index[n] + 1)

\* C5: when all N records carry "Typ instrumentu" and M of them have the value
\* "60", exactly those M records are returned, in the order of their rows.
C5_ExactlyTheSixtyRows ==
    (Extracted /\ \A i \in 1..Len(rows) : HasField(rows[i])) =>
        /\ ReturnsExactly(SixtyRows)
        /\ rows # <<>> => result # None

C5_Witness ==
    /\ Extracted
    /\ Len(rows) = 2
    /\ \A i \in 1..2 : HasField(rows[i])
    /\ SixtyRows = {2}
    /\ ReturnedCount = 1

\* C6: when N >= 1 records are built and none has a field "Typ instrumentu",
\* all N records are returned, unfiltered and in source order, and the result
\* is neither empty nor None.
C6_NoFilterFieldReturnsAll ==
    (Extracted /\ rows # <<>> /\ \A i \in 1..Len(rows) : ~HasField(rows[i])) =>
        /\ result # None
        /\ ~Empty(result)
        /\ result.index = [i \in 1..Len(rows) |-> i - 1]
        /\ ReturnsExactly(1..Len(rows))

C6_Witness ==
    /\ Extracted
    /\ Len(rows) = 2
    /\ \A i \in 1..2 : ~HasField(rows[i])
    /\ rows[1] # rows[2]
    /\ ReturnedCount = 2

Present(a) == a # NoAttr /\ a # Attr("")

\* C7: the field name of a cell at position idx is its data-title when present
\* and non-empty, else its data-label when present and non-empty, whatever idx
\* is; else COLUMN_MAPPING[idx] for 0 <= idx <= 16; else "Kolumna_<idx+1>".
C7_ColumnNameResolution ==
    pc = "column_done" =>
        /\ Present(cell_in.title) => col_out = cell_in.title[1]
        /\ (~Present(cell_in.title) /\ Present(cell_in.label)) => col_out = cell_in.label[1]
        /\ (~Present(cell_in.title) /\ ~Present(cell_in.label)) =>
              /\ cell_in.idx \in 0..16 => col_out = COLUMN_MAPPING[cell_in.idx + 1]
              /\ cell_in.idx = 1 => col_out = "Typ instrumentu"
              /\ cell_in.idx = 2 => col_out = "Fixing I - Kurs [PLN/MWh]"
              /\ cell_in.idx = 16 => col_out = "Lacznie - Wolumen sprzedazy [MWh]"
              /\ cell_in.idx = 17 => col_out = "Kolumna_18"
              /\ cell_in.idx > 16 => col_out = "Kolumna_" \o ToString(cell_in.idx + 1)

C7_Witness ==
    /\ pc = "column_done"
    /\ cell_in.title = Attr("")
    /\ cell_in.label = Attr("Instrument")
    /\ cell_in.idx = 17
    /\ col_out = "Instrument"

\* C8: an invocation that ends on a document without the table and one that
\* ends on a table without body or without rows both return None, and the
\* __main__ block takes the failure branch for both: it prints the failure
\* message and neither displays nor saves.
C8_MissingTableAndNoRowsAlike ==
    (Done /\ Outcomes # <<>> /\ LastOutcome.e \in {"table_missing", "no_data"}) =>
        /\ result = None
        /\ LastOutcome.e = "table_missing" <=> ~doc.table
        /\ pc = "exit" => out = [displayed |-> FALSE, saved |-> FALSE, failure |-> TRUE]
        /\ pc = "returned" => (ENABLED MainFailure /\ ~ENABLED MainDisplayAndSave)

C8_Witness ==
    /\ pc = "exit"
    /\ doc.table
    /\ ~doc.tbody
    /\ LastOutcome.e = "no_data"
    /\ Len(Outcomes) = 2
    /\ Outcomes[1].e = "table_missing"
    /\ out.failure

\* C9: when at least one record is built, the field "Typ instrumentu" is
\* present and no record has the value "60", an empty DataFrame is returned,
\* which is not the None returned when the table is missing or holds no data.
C9_EmptyResultIsNotFailure ==
    /\ (Extracted /\ (\E i \in 1..Len(rows) : HasField(rows[i])) /\ SixtyRows = {}) =>
          /\ result # None
          /\ result.kind = "DataFrame"
          /\ Len(result.index) = 0
          /\ result.data = <<>>
          /\ \A i \in 1..Len(rows) : \A j \in 1..Len(rows[i]) :
                Contains(result.columns, rows[i][j].k)
    /\ (Done /\ Outcomes # <<>> /\ LastOutcome.e \in {"table_missing", "no_data"}) =>
          result = None

C9_Witness ==
    /\ Extracted
    /\ Len(rows) = 2
    /\ HasField(rows[1])
    /\ ~HasField(rows[2])
    /\ SixtyRows = {}
    /\ result # None

IsDigit(c) == c \in {"0", "1", "2", "3", "4", "5", "6", "7", "8", "9"}

\* a string of the form DD-MM-YYYY
IsDateString(v) ==
    /\ Len(v) = 10
    /\ v[3] = "-"
    /\ v[6] = "-"
    /\ \A i \in {1, 2, 4, 5, 7, 8, 9, 10} : IsDigit(v[i])

\* C10 as stated: get_polish_date never raises and returns a DD-MM-YYYY
\* string, whichever way its stages end.
C10_DateNeverRaises ==
    pc = "date_done" => (~date_out.raised /\ IsDateString(date_out.value))


-----------------------------------------------------------------------------
(* The retry budget and the terminal outcomes *)

\* C13: a document without the table 'rdn' on attempt i is followed, when
\* i < max_retries - 1, by attempt i + 1 after a sleep of 2^(i+1) seconds, as
\* a transport failure is; when i = max_retries - 1 the invocation returns
\* None.  Such attempts count against the same budget of max_retries requests.
C13_TableMissingRetried ==
    /\ \A p \in 1..Len(log) :
          log[p].e = "table_missing" =>
              LET i == log[p].n
              IN  /\ i < max_retries - 1 =>
                        /\ p = Len(log) => (pc = "for" /\ attempt = i + 1)
                        /\ p + 1 <= Len(log) => log[p + 1] = Event("sleep", 2 ^ (i + 1))
                        /\ p + 2 <= Len(log) => log[p + 2] = Event("get", i + 1)
                  /\ i = max_retries - 1 =>
                        /\ p = Len(log)
                        /\ Done
                        /\ result = None
                  /\ i <= max_retries - 1
    /\ \A p \in 1..Len(log) : \A q \in 1..Len(log) :
          (/\ log[p].e = "table_missing"
           /\ log[q].e = "RequestException"
           /\ log[p].n = log[q].n) =>
              \* whichever of the two an attempt ended with, what follows is the same
              \A d \in 1..2 :
                  (p + d <= Len(log) /\ q + d <= Len(log)) => log[p + d] = log[q + d]
    /\ Len(Gets) <= max_retries \/ Len(Gets) = 0
    /\ \A g \in 1..Len(Gets) : Gets[g].n = g - 1

C13_Witness ==
    /\ Done
    /\ max_retries = 3
    /\ Len(Outcomes) = 3
    /\ Outcomes[1].e = "table_missing"
    /\ Outcomes[2].e = "RequestException"
    /\ Outcomes[3].e = "table_missing"
    /\ result = None

\* C14: when the table is found and its body is absent or yields no record,
\* the invocation ends on that attempt with None and issues no further
\* request, even when attempts remain.
C14_NoDataIsTerminal ==
    /\ \A p \in 1..Len(log) :
          log[p].e = "no_data" =>
              /\ p = Len(log)
              /\ Done
              /\ result = None
              /\ Len(Gets) = log[p].n + 1
              /\ doc.table
              /\ ~doc.tbody \/ \A t \in 1..Len(doc.trs) : doc.trs[t] = <<>>
    /\ (pc = "parse" /\ doc.table /\ (~doc.tbody \/ \A t \in 1..Len(doc.trs) : doc.trs[t] = <<>>)) =>
          /\ ENABLED NoData
          /\ ~ENABLED ReturnUnfiltered
          /\ ~ENABLED ReturnFiltered
          /\ ~ENABLED TableMissing

C14_Witness ==
    /\ Done
    /\ max_retries = 3
    /\ log[Len(log)] = Event("no_data", 0)
    /\ doc.tbody
    /\ Len(doc.trs) = 2

\* C15: an exception that is no transport error, raised while a fetched
\* document is processed, is caught: the invocation ends at once with None,
\* whatever attempts remain, returns no partial DataFrame and does not crash
\* the caller.
C15_ProcessingExceptionIsTerminal ==
    \A p \in 1..Len(log) :
        log[p].e = "Exception" =>
            /\ p = Len(log)
            /\ p > 1
            /\ log[p - 1] = Event("ok", log[p].n)
            /\ Done
            /\ pc # "crashed"
            /\ result = None
            /\ Len(Gets) = log[p].n + 1

C15_Witness ==
    /\ pc = "exit"
    /\ max_retries = 3
    /\ log[Len(log)] = Event("Exception", 0)
    /\ doc.tbody
    /\ doc.trs # <<>>
    /\ out.failure

\* the positions of the body rows that have at least one cell
CellRows == { t \in 1..Len(doc.trs) : doc.trs[t] # <<>> }

\* the position of the k-th body row that has cells
NthCellRow(k) ==
    CHOOSE t \in CellRows : Cardinality({ u \in CellRows : u <= t }) = k

\* C16: body rows without cells produce no record: there are as many records
\* as body rows with at least one cell, and the k-th record is built from the
\* k-th such row.
C16_EmptyRowsSkipped ==
    (Extracted /\ doc.tbody) =>
        /\ Len(rows) = Cardinality(CellRows)
        /\ \A k \in 1..Len(rows) :
              LET cells == doc.trs[NthCellRow(k)]
              IN  /\ rows[k] # <<>>
                  /\ Len(rows[k]) <= Len(cells)
                  /\ \A c \in 1..Len(cells) :
                        \E f \in 1..Len(rows[k]) :
                            rows[k][f].k = ColName(cells[c].title, cells[c].label, c - 1)
                  /\ \E f \in 1..Len(rows[k]) :
                        /\ rows[k][f].k = ColName(cells[Len(cells)].title,
                                                  cells[Len(cells)].label, Len(cells) - 1)
                        /\ rows[k][f].v = GetText(cells[Len(cells)])

C16_Witness ==
    /\ Extracted
    /\ Len(doc.trs) = 2
    /\ doc.trs[1] = <<>>
    /\ Len(rows) = 1
    /\ result # None

\* C18: whenever scrape_tge_data returns a DataFrame, either no record has the
\* field "Typ instrumentu" and the result is the complete set of records, or
\* some record has it and every returned record has "Typ instrumentu" equal
\* to "60"; then the records without the field are left out.
C18_ResultInvariant ==
    (Done /\ result # None) =>
        \/ /\ \A i \in 1..Len(rows) : ~HasField(rows[i])
           /\ Len(result.index) = Len(rows)
           /\ \A n \in 1..Len(rows) : result.index[n] = n - 1 /\ RowIsRecord(n, n)
        \/ /\ \E i \in 1..Len(rows) : HasField(rows[i])
           /\ \A n \in 1..Len(result.index) :
                 \E c \in 1..Len(result.columns) :
                     /\ result.columns[c] = FilterField
                     /\ result.data[n][c] = SixtyText
           /\ \A i \in 1..Len(rows) :
                 ~HasField(rows[i]) =>
                     \A n \in 1..Len(result.index) : result.index[n] # i - 1

C18_Witness ==
    /\ Done
    /\ result # None
    /\ Len(rows) = 2
    /\ IsSixty(rows[1])
    /\ ~HasField(rows[2])
    /\ Len(result.index) = 1


-----------------------------------------------------------------------------
(* Bound and termination of the retry loop *)

RECURSIVE SumSeconds(_)
SumSeconds(evs) ==
    IF evs = <<>> THEN 0 ELSE Head(evs).n + SumSeconds(Tail(evs))

\* the seconds slept so far
TotalSleep == SumSeconds(SleepEvents)

AtLeastZero(m) == IF m > 0 THEN m ELSE 0

\* every sleep comes right before the request of an attempt with index >= 1
SleepsOnlyBeforeRetries ==
    \A p \in 1..Len(log) :
        log[p].e = "sleep" =>
            /\ p = Len(log) => (pc = "get" /\ attempt >= 1 /\ log[p].n = 2 ^ attempt)
            /\ p < Len(log) =>
                  /\ log[p + 1].e = "get"
                  /\ log[p + 1].n >= 1
                  /\ log[p].n = 2 ^ log[p + 1].n

\* scrape_tge_data has ended, by a return or by an exception leaving it
Terminated == pc \in {"returned", "exit", "crashed"}

NoRequestWithoutBudget ==
    max_retries <= 0 =>
        /\ Len(Gets) = 0
        /\ Done => result = None

\* C17 as stated: for every integer max_retries the invocation terminates,
\* issues at most max(max_retries, 0) requests, sleeps only before attempts
\* with index >= 1, sleeps at most 2^max_retries - 2 seconds in total, and
\* with max_retries <= 0 issues no request and returns None.  (For a
\* negative max_retries, 2^max_retries - 2 lies between -2 and -1.)
C17_AsStated ==
    /\ [](/\ Len(Gets) <= AtLeastZero(max_retries)
          /\ SleepsOnlyBeforeRetries
          /\ Done => IF max_retries >= 0
                     THEN TotalSleep <= 2 ^ max_retries - 2
                     ELSE TotalSleep <= 0 - 1
          /\ NoRequestWithoutBudget)
    /\ <>Terminated

\* C17 (amended): once the session is open the retry loop ends with a return;
\* at most max(max_retries, 0) requests are issued; sleeps come only before
\* attempts with index >= 1; the total sleep is at most 2^max_retries - 2
\* seconds when max_retries >= 1 and zero when max_retries <= 0; with
\* max_retries <= 0 no request is issued and None is returned.
C17_BoundAndTermination ==
    /\ [](/\ Len(Gets) <= AtLeastZero(max_retries)
          /\ SleepsOnlyBeforeRetries
          /\ max_retries >= 1 => TotalSleep <= 2 ^ max_retries - 2
          /\ max_retries <= 0 => TotalSleep = 0
          /\ NoRequestWithoutBudget)
    /\ (pc = "for") ~> Done
    /\ <>Terminated

C17_Witness ==
    /\ Done
    /\ max_retries = 3
    /\ Len(Gets) = 3
    /\ TotalSleep = 6
    /\ Outcomes[2].e = "table_missing"


-----------------------------------------------------------------------------
(* Reading the file back *)

IsNewline(c) == c \in {"\r", "\n"}

\* a reader of delimited text as csv.reader is: fields split at commas and
\* records at "\n", "\r" or "\r\n" outside quotes, quoted fields with doubled
\* quotes; every field a string
RECURSIVE ReadFrom(_, _, _, _, _, _)
ReadFrom(s, i, st, field, row, recs) ==
    IF i > Len(s)
    THEN IF st = "start_record" THEN recs ELSE Append(recs, Append(row, field))
    ELSE
      LET c    == s[i]
          \* the position after the line break that starts at i
          past == IF c = "\r" /\ i < Len(s) /\ s[i + 1] = "\n" THEN i + 2 ELSE i + 1
      IN  IF st = "in_quoted"
          THEN IF c = "\""
               THEN ReadFrom(s, i + 1, "quote_in_quoted", field, row, recs)
               ELSE ReadFrom(s, i + 1, "in_quoted", Append(field, c), row, recs)
          ELSE IF IsNewline(c)
          THEN ReadFrom(s, past, "start_record", <<>>, <<>>,
                        Append(recs, IF st = "start_record" THEN <<>>
                                     ELSE Append(row, field)))
          ELSE IF c = ","
          THEN ReadFrom(s, i + 1, "start_field", <<>>, Append(row, field), recs)
          ELSE IF c = "\""
          THEN IF st \in {"start_record", "start_field"}
               THEN ReadFrom(s, i + 1, "in_quoted", <<>>, row, recs)
               ELSE IF st = "quote_in_quoted"
               THEN ReadFrom(s, i + 1, "in_quoted", Append(field, c), row, recs)
               ELSE ReadFrom(s, i + 1, "in_field", Append(field, c), row, recs)
          ELSE ReadFrom(s, i + 1, "in_field", Append(field, c), row, recs)

\* the file decoded as UTF-8 with signature and read as delimited text
ReadCsv(f) ==
    ReadFrom(IF f # <<>> /\ Head(f) = Bom THEN Tail(f) ELSE f,
             1, "start_record", <<>>, <<>>, <<>>)

-----------------------------------------------------------------------------
(* Claims about save_to_file, display_data and the __main__ block *)

\* None, or a DataFrame of no records
AbsentOrNoRecords(df) == df = None \/ df.data = <<>>

TablePrinted == \E i \in 1..Len(console) : console[i] = "df.to_string(index=False)"

\* C11: save_to_file called with None or with a DataFrame of no records writes
\* no file and display_data called with one prints no table, each printing its
\* diagnostic only; and the __main__ block displays and saves when
\* scrape_tge_data returned a DataFrame of at least one record, and otherwise
\* does neither, writes no file and prints the failure message.
C11_NoOpsOnEmptyOrAbsent ==
    /\ (pc = "saved" /\ AbsentOrNoRecords(df_in)) =>
           /\ file = NoFile
           /\ console = <<"Brak danych do zapisania.">>
    /\ (pc = "shown" /\ AbsentOrNoRecords(df_in)) =>
           /\ ~TablePrinted
           /\ console = <<"Brak danych do wyswietlenia.">>
    /\ (pc = "exit") =>
           /\ (out.displayed /\ out.saved) <=> ~AbsentOrNoRecords(result)
           /\ out.displayed <=> TablePrinted
           /\ out.displayed <=> out.saved
           /\ out.failure <=> AbsentOrNoRecords(result)
           /\ AbsentOrNoRecords(result) => file = NoFile

\* save_to_file and display_data were each called with a filtered DataFrame
\* that kept its columns and no record, and the program has ended both ways
C11_Witness ==
    /\ pc = "saved"
    /\ df_in # None
    /\ df_in.data = <<>>
    /\ df_in.columns # <<>>
    /\ file = NoFile

\* the table save_to_file was given, as strings: the field names, then every
\* record, a field the record omits being the empty string
Written(df) ==
    << [j \in 1..Len(df.columns) |-> Chars(df.columns[j])] >>
    \o [i \in 1..Len(df.data) |->
           [j \in 1..Len(df.columns) |-> NaRep(df.data[i][j])]]

\* C12: once save_to_file has written a DataFrame of at least one record,
\* reading the file back gives the same field names in the same order and, record
\* by record in the same order, the same cell values as strings, an omitted
\* field reading back as the empty string.
C12_RoundTrip ==
    /\ (pc = "saved" /\ file # NoFile) => ReadCsv(file) = Written(df_in)
    /\ (pc = "exit" /\ file # NoFile) => ReadCsv(file) = Written(result)

====
